---- MODULE Spec2Model ----
(***************************************************************************)
(* Model of src/mprocess.py: the two batch executors                       *)
(*   SubprocessPool        (add_command / run_processes with retries)      *)
(*   MultiprocessingPool   (add_function_call / run_processes)             *)
(* Each executor is one instance that is used over and over: items are     *)
(* added while it is idle, run_processes is invoked, and when it returns   *)
(* or raises the instance is idle again.  Spec is the SubprocessPool,      *)
(* CallSpec the MultiprocessingPool.                                       *)
(***************************************************************************)
EXTENDS Integers, Sequences, FiniteSets, TLC

VARIABLES
    \* ---- SubprocessPool --------------------------------------------------
    cmd_list,        \* self.cmd_list
    batch,           \* history: the commands added since the last run ended
    pc,              \* position inside run_processes ("idle" outside it,
                     \* "done" at its return or raise)
    outcome,         \* how the last run_processes call ended
    processes,       \* argument processes
    shell,           \* argument shell
    output,          \* argument output
    retries,         \* argument retries
    tracker,         \* the CMDTracker objects of this run, by creation index
    exit_plan,       \* environment: exit_plan[t] = number of failing attempts
    launched,        \* history: number of Popen calls made for tracker t
    to_run,          \* to_run_cmd_tracker_list
    running,         \* running_cmd_tracker_list
    still_running,   \* still_running_cmd_tracker_list
    completed,       \* completed_cmd_tracker_list
    cmd_tracker,     \* the local cmd_tracker (loop variable, read by the closure)
    idx,             \* position of the for loop in progress
    log,             \* logging.info lines emitted by the current run
    \* ---- MultiprocessingPool ---------------------------------------------
    function_call_list,  \* self.function_call_list
    call_batch,      \* history: the calls added since the last run ended
    cpc,             \* position inside MultiprocessingPool.run_processes
    coutcome,        \* how the last run ended
    cprocesses,      \* argument processes
    pool,            \* the Pool of this run: "none", "open", "closed"
    result_list,     \* the AsyncResults, in dispatch order
    log_str_list,    \* the collected (log_str, error_caught) pairs
    cidx,            \* position of the logging loop
    clog             \* logging.info lines emitted by the current run

subVars == <<cmd_list, batch, pc, outcome, processes, shell, output, retries,
             tracker, exit_plan, launched, to_run, running, still_running,
             completed, cmd_tracker, idx, log>>

callVars == <<function_call_list, call_batch, cpc, coutcome, cprocesses, pool,
              result_list, log_str_list, cidx, clog>>

vars == <<subVars, callVars>>

----------------------------------------------------------------------------
\* Bounds of the model
MaxCmds == 2        \* longest batch of commands
MaxRetries == 1     \* largest valid retries argument tried
MaxProcs == 2       \* largest valid processes argument tried
MaxCalls == 3       \* longest list of function calls

\* Program constants
ProcessesLimit == 37    \* assert 0 < processes < 37
RetriesLimit == 30      \* assert 0 <= retries <= 30

\* Inputs
CmdInputs == {<< >>, <<"a">>, <<"b", "c">>}
ProcessesInputs == {0, ProcessesLimit} \cup (1..MaxProcs)
RetriesInputs == {-1, RetriesLimit + 1} \cup (0..MaxRetries)
BadBytes == "\\xff"

----------------------------------------------------------------------------
\* logging.info(f'{msg}{text}')
LogLine(msg, text) == [level |-> "info", msg |-> msg, text |-> text]

\* SubprocessPool

NoPopen == [state |-> "None", args |-> << >>, capture |-> FALSE,
            shell |-> FALSE, returncode |-> -1]

\* CMDTracker.__init__
CMDTracker(cmd) ==
    [cmd |-> cmd, retries |-> 0, popen |-> NoPopen, stdout_bytes |-> "None"]

RECURSIVE Join(_)
\* ' '.join(cmd)
Join(cmd) ==
    IF Len(cmd) = 0 THEN ""
    ELSE IF Len(cmd) = 1 THEN cmd[1]
    ELSE cmd[1] \o " " \o Join(Tail(cmd))

\* subprocess.Popen(args=cmd, stdout=..., stderr=..., shell=shell)
Popen(cmd) ==
    [state |-> "live",
     args |-> IF shell THEN <<Join(cmd)>> ELSE cmd,
     capture |-> output,
     shell |-> shell,
     returncode |-> -1]

\* what communicate() returns as stdout_data once the process has exited:
\* None when stdout went to DEVNULL, else the bytes the command wrote
\* (command "a" writes text, command "b c" writes bytes that are not UTF-8)
communicate(p) ==
    IF ~p.capture THEN "None"
    ELSE IF p.args[1] = "a" THEN "out "
    ELSE BadBytes

\* bytes.decode().strip() on the sample outputs
DecodeStrip(b) ==
    IF b = BadBytes THEN [raised |-> "UnicodeDecodeError", value |-> ""]
    ELSE IF b = "out " THEN [raised |-> "", value |-> "out"]
    ELSE [raised |-> "", value |-> b]

\* get_std_out_from_tracker: reads the enclosing cmd_tracker, not its parameter
get_std_out_from_tracker(_cmd_tracker) ==
    LET b == tracker[cmd_tracker].stdout_bytes IN
    IF b = "None" THEN [raised |-> "AttributeError", value |-> ""]
    ELSE IF DecodeStrip(b).raised = "UnicodeDecodeError"
         THEN [raised |-> "", value |-> "\n"]
         ELSE [raised |-> "", value |-> "\n" \o DecodeStrip(b).value]

\* self.cmd_list.clear()
clear_Noop(list) == list
clear(list) == << >>

\* the messages of the failed assert statements
ProcessesAssertion == "AssertionError: processes must be between 1 and 36 inclusive"
RetriesAssertion == "AssertionError: retries must be an int from 0 to 30"
EmptyCmdAssertion == "AssertionError: cmd must not be empty"
NotCallableAssertion == "AssertionError: func must be a callable function"

\* assert len(cmd) > 0
NonEmpty_Skipped(cmd) == TRUE
NonEmpty(cmd) == Len(cmd) > 0

\* assert 0 < processes < 37
ValidProcesses_ZeroAllowed(p) == 0 <= p /\ p < ProcessesLimit
ValidProcesses(p) == 0 < p /\ p < ProcessesLimit

\* assert 0 <= retries <= 30
ValidRetries_NoLowerBound(r) == r <= RetriesLimit
ValidRetries(r) == 0 <= r /\ r <= RetriesLimit

\* the assertions of SubprocessPool.run_processes, in their order
ValidArgs(p, r) == ValidProcesses(p) /\ ValidRetries(r)
ArgsAssertion(p, r) == IF ~ValidProcesses(p) THEN ProcessesAssertion ELSE RetriesAssertion

\* the test of the outer while loop
LoopTest_PendingOnly(tr, rn) == Len(tr) > 0
LoopTest(tr, rn) == Len(tr) > 0 \/ Len(rn) > 0

\* the test of the inner while loop
CanLaunch_LeavesSlot == Len(running) + 1 < processes /\ Len(to_run) > 0
CanLaunch_Single == Len(running) < 1 /\ Len(to_run) > 0
CanLaunch_OffByOne == Len(running) <= processes /\ Len(to_run) > 0
CanLaunch == Len(running) < processes /\ Len(to_run) > 0

\* if cmd_tracker.retries == retries
RetryLimitReached_Early(t) == tracker[t].retries + 1 >= retries
RetryLimitReached_First(t) == tracker[t].retries = 0
RetryLimitReached_Greater(t) == tracker[t].retries > retries
RetryLimitReached_Late(t) == tracker[t].retries = retries + 1
RetryLimitReached(t) == tracker[t].retries = retries

\* exit status of attempt number k of tracker t
ExitStatus(t, k) == IF k <= exit_plan[t] THEN 1 ELSE 0

Raised == {"RuntimeError", "AttributeError"}

SubInit ==
    /\ cmd_list = << >>
    /\ batch = << >>
    /\ pc = "idle"
    /\ outcome = "none"
    /\ processes = 1
    /\ shell = FALSE
    /\ output = TRUE
    /\ retries = 0
    /\ tracker = << >>
    /\ exit_plan = << >>
    /\ launched = << >>
    /\ to_run = << >>
    /\ running = << >>
    /\ still_running = << >>
    /\ completed = << >>
    /\ cmd_tracker = 0
    /\ idx = 0
    /\ log = << >>

runLocals == <<processes, shell, output, retries, tracker, exit_plan, launched,
               to_run, running, still_running, completed, cmd_tracker, idx, log>>

\* add_command
add_command ==
    /\ pc = "idle"
    /\ Len(cmd_list) < MaxCmds
    /\ \E cmd \in CmdInputs :
         IF NonEmpty(cmd)
         THEN /\ cmd_list' = Append(cmd_list, cmd)
              /\ batch' = Append(batch, cmd)
              /\ outcome' = outcome
         ELSE /\ outcome' = EmptyCmdAssertion
              /\ UNCHANGED <<cmd_list, batch>>
    /\ UNCHANGED <<pc, runLocals, callVars>>

\* run_processes up to the first test of the outer loop
run_processes ==
    /\ pc = "idle"
    /\ \E p \in ProcessesInputs, sh \in BOOLEAN, out \in BOOLEAN, r \in RetriesInputs :
         IF ~ValidArgs(p, r)
         THEN /\ outcome' = ArgsAssertion(p, r)
              /\ UNCHANGED <<cmd_list, batch, pc, runLocals>>
         ELSE /\ processes' = p
              /\ shell' = sh
              /\ output' = out
              /\ retries' = r
              /\ tracker' = [t \in 1..Len(cmd_list) |-> CMDTracker(cmd_list[t])]
              /\ \E plan \in [1..Len(cmd_list) -> 0..(MaxRetries + 1)] :
                    exit_plan' = plan
              /\ launched' = [t \in 1..Len(cmd_list) |-> 0]
              /\ to_run' = [t \in 1..Len(cmd_list) |-> t]
              /\ cmd_list' = clear(cmd_list)
              /\ batch' = batch
              /\ running' = << >>
              /\ still_running' = << >>
              /\ completed' = << >>
              /\ cmd_tracker' = 0
              /\ idx' = 0
              /\ log' = << >>
              /\ IF LoopTest(to_run', running')
                 THEN pc' = "launch" /\ outcome' = "none"
                 ELSE pc' = "done" /\ outcome' = "returned"
    /\ UNCHANGED callVars

\* one iteration of the inner while loop: pop a tracker and start its process
Launch_NoPop ==
    /\ pc = "launch"
    /\ CanLaunch
    /\ LET t == to_run[Len(to_run)] IN
         /\ cmd_tracker' = t
         /\ to_run' = to_run
         /\ tracker' = [tracker EXCEPT ![t].popen = Popen(tracker[t].cmd)]
         /\ launched' = [launched EXCEPT ![t] = @ + 1]
         /\ running' = Append(running, t)
    /\ UNCHANGED <<cmd_list, batch, pc, outcome, processes, shell, output, retries,
                   exit_plan, still_running, completed, idx, log, callVars>>

Launch ==
    /\ pc = "launch"
    /\ CanLaunch
    /\ LET t == to_run[Len(to_run)] IN
         /\ cmd_tracker' = t
         /\ to_run' = SubSeq(to_run, 1, Len(to_run) - 1)
         /\ tracker' = [tracker EXCEPT ![t].popen = Popen(tracker[t].cmd)]
         /\ launched' = [launched EXCEPT ![t] = @ + 1]
         /\ running' = Append(running, t)
    /\ UNCHANGED <<cmd_list, batch, pc, outcome, processes, shell, output, retries,
                   exit_plan, still_running, completed, idx, log, callVars>>

\* the inner while loop ends; the poll loop begins
LaunchDone ==
    /\ pc = "launch"
    /\ ~CanLaunch
    /\ pc' = "poll"
    /\ still_running' = << >>
    /\ completed' = << >>
    /\ idx' = 1
    /\ UNCHANGED <<cmd_list, batch, outcome, processes, shell, output, retries,
                   tracker, exit_plan, launched, to_run, running, cmd_tracker,
                   log, callVars>>

\* communicate(timeout=1) returns: the process has exited
PollCompleted ==
    /\ pc = "poll"
    /\ idx <= Len(running)
    /\ LET t == running[idx] IN
         /\ cmd_tracker' = t
         /\ tracker' = [tracker EXCEPT
                          ![t].popen.state = "exited",
                          ![t].popen.returncode = ExitStatus(t, launched[t]),
                          ![t].stdout_bytes = communicate(tracker[t].popen)]
         /\ completed' = Append(completed, t)
    /\ idx' = idx + 1
    /\ UNCHANGED <<cmd_list, batch, pc, outcome, processes, shell, output, retries,
                   exit_plan, launched, to_run, running, still_running, log,
                   callVars>>

\* communicate(timeout=1) raises TimeoutExpired: the process is still running
PollTimeout ==
    /\ pc = "poll"
    /\ idx <= Len(running)
    /\ cmd_tracker' = running[idx]
    /\ still_running' = Append(still_running, running[idx])
    /\ idx' = idx + 1
    /\ UNCHANGED <<cmd_list, batch, pc, outcome, processes, shell, output, retries,
                   tracker, exit_plan, launched, to_run, running, completed, log,
                   callVars>>

\* the poll loop ends: running_cmd_tracker_list = still_running_cmd_tracker_list
PollDone ==
    /\ pc = "poll"
    /\ idx > Len(running)
    /\ running' = still_running
    /\ idx' = 1
    /\ IF Len(completed) > 0
       THEN pc' = "check" /\ outcome' = outcome
       ELSE IF LoopTest(to_run, running')
            THEN pc' = "launch" /\ outcome' = outcome
            ELSE pc' = "done" /\ outcome' = "returned"
    /\ UNCHANGED <<cmd_list, batch, processes, shell, output, retries, tracker,
                   exit_plan, launched, to_run, still_running, completed,
                   cmd_tracker, log, callVars>>

\* where the run goes after the body of the check loop for position idx
AfterCheck(tr) ==
    /\ idx' = idx + 1
    /\ IF idx < Len(completed)
       THEN pc' = "check" /\ outcome' = outcome
       ELSE IF LoopTest(tr, running)
            THEN pc' = "launch" /\ outcome' = outcome
            ELSE pc' = "done" /\ outcome' = "returned"

\* non-zero return code at the retry limit: log the output and raise
CheckFatal_WaitSiblings ==
    /\ pc = "check"
    /\ idx <= Len(completed)
    /\ LET t == completed[idx] IN
         /\ tracker[t].popen.returncode # 0
         /\ RetryLimitReached(t)
         /\ cmd_tracker' = t
         /\ tracker' = [u \in DOMAIN tracker |->
                          IF \E k \in 1..Len(running) : running[k] = u
                          THEN [tracker[u] EXCEPT !.popen.state = "exited"]
                          ELSE tracker[u]]
         /\ running' = << >>
         /\ outcome' = "RuntimeError"
         /\ log' = log
    /\ pc' = "done"
    /\ UNCHANGED <<cmd_list, batch, processes, shell, output, retries,
                   exit_plan, launched, to_run, still_running, completed,
                   idx, callVars>>

CheckFatal ==
    /\ pc = "check"
    /\ idx <= Len(completed)
    /\ LET t == completed[idx] IN
         /\ tracker[t].popen.returncode # 0
         /\ RetryLimitReached(t)
         /\ cmd_tracker' = t
         /\ tracker' = tracker
         /\ LET so == get_std_out_from_tracker(t)' IN
              IF so.raised # ""
              THEN /\ outcome' = so.raised
                   /\ log' = log
              ELSE /\ log' = Append(log, LogLine(" - subprocess exited with errors - ", so.value))
                   /\ outcome' = "RuntimeError"
    /\ pc' = "done"
    /\ UNCHANGED <<cmd_list, batch, processes, shell, output, retries,
                   exit_plan, launched, to_run, running, still_running, completed,
                   idx, callVars>>

\* non-zero return code below the retry limit: queue the tracker again
CheckRetry ==
    /\ pc = "check"
    /\ idx <= Len(completed)
    /\ LET t == completed[idx] IN
         /\ tracker[t].popen.returncode # 0
         /\ ~RetryLimitReached(t)
         /\ cmd_tracker' = t
         /\ tracker' = [tracker EXCEPT ![t].retries = @ + 1, ![t].popen = NoPopen]
         /\ to_run' = Append(to_run, t)
         /\ AfterCheck(to_run')
    /\ UNCHANGED <<cmd_list, batch, processes, shell, output, retries, exit_plan,
                   launched, running, still_running, completed, log, callVars>>

\* zero return code: log the output when it was captured
CheckSuccess ==
    /\ pc = "check"
    /\ idx <= Len(completed)
    /\ LET t == completed[idx] IN
         /\ tracker[t].popen.returncode = 0
         /\ cmd_tracker' = t
         /\ tracker' = tracker
         /\ IF output
            THEN LET so == get_std_out_from_tracker(t)' IN
                   IF so.raised # ""
                   THEN /\ outcome' = so.raised
                        /\ pc' = "done"
                        /\ UNCHANGED <<log, idx>>
                   ELSE /\ log' = Append(log, LogLine(" - subprocess completed - ", so.value))
                        /\ AfterCheck(to_run)
            ELSE /\ log' = log
                 /\ AfterCheck(to_run)
    /\ UNCHANGED <<cmd_list, batch, processes, shell, output, retries,
                   exit_plan, launched, to_run, running, still_running, completed,
                   callVars>>

\* control leaves run_processes: its locals are gone, the instance is idle again
Exit ==
    /\ pc = "done"
    /\ pc' = "idle"
    /\ processes' = 1
    /\ shell' = FALSE
    /\ output' = TRUE
    /\ retries' = 0
    /\ tracker' = << >>
    /\ exit_plan' = << >>
    /\ launched' = << >>
    /\ to_run' = << >>
    /\ running' = << >>
    /\ still_running' = << >>
    /\ completed' = << >>
    /\ cmd_tracker' = 0
    /\ idx' = 0
    /\ batch' = << >>
    /\ UNCHANGED <<cmd_list, outcome, log, callVars>>

----------------------------------------------------------------------------
\* MultiprocessingPool

FuncInputs == {"f_quiet", "f_log", "f_raise", "not_callable"}

\* callable(func)
callable(func) == func # "not_callable"

\* FunctionCall.__init__
FunctionCall(func) == [func |-> func, arg_tuple |-> << >>]

\* what the callable does when it is called in the worker
FuncRaises(func) == func = "f_raise"
FuncLogs(func) == IF func = "f_log" THEN "f_log ran" ELSE ""

\* _call_func_and_return_log_and_error_caught
call_func_and_return_log_and_error_caught(function_call) ==
    IF FuncRaises(function_call.func)
    THEN [log_str |-> "error: f_raise failed", error_caught |-> TRUE]
    ELSE [log_str |-> FuncLogs(function_call.func), error_caught |-> FALSE]

Executing == {k \in 1..Len(result_list) : result_list[k].state = "executing"}

\* the list comprehension has collected every result
AllCollected_First == Len(log_str_list) >= 1 \/ Len(result_list) = 0
AllCollected == Len(log_str_list) = Len(result_list)

\* the logging loop is left by the raise of the first errored result
RaiseOnError(r) == r.error_caught

CallInit ==
    /\ function_call_list = << >>
    /\ call_batch = << >>
    /\ cpc = "idle"
    /\ coutcome = "none"
    /\ cprocesses = 1
    /\ pool = "none"
    /\ result_list = << >>
    /\ log_str_list = << >>
    /\ cidx = 0
    /\ clog = << >>

callLocals == <<cprocesses, pool, result_list, log_str_list, cidx, clog>>

\* FunctionCall(func, arg_tuple) followed by add_function_call
add_function_call ==
    /\ cpc = "idle"
    /\ Len(function_call_list) < MaxCalls
    /\ \E func \in FuncInputs :
         IF callable(func)
         THEN /\ function_call_list' = Append(function_call_list, FunctionCall(func))
              /\ call_batch' = Append(call_batch, FunctionCall(func))
              /\ coutcome' = coutcome
         ELSE /\ coutcome' = NotCallableAssertion
              /\ UNCHANGED <<function_call_list, call_batch>>
    /\ UNCHANGED <<cpc, callLocals, subVars>>

\* MultiprocessingPool.run_processes up to the creation of the pool
call_run_processes ==
    /\ cpc = "idle"
    /\ \E p \in ProcessesInputs :
         IF ~ValidProcesses(p)
         THEN /\ coutcome' = ProcessesAssertion
              /\ UNCHANGED <<call_batch, cpc, callLocals>>
         ELSE /\ cprocesses' = p
              /\ pool' = "open"
              /\ result_list' = << >>
              /\ log_str_list' = << >>
              /\ cidx' = 1
              /\ clog' = << >>
              /\ call_batch' = call_batch
              /\ coutcome' = "none"
              /\ cpc' = "dispatch"
    /\ UNCHANGED <<function_call_list, subVars>>

\* one iteration of the dispatch loop: pool.apply_async
Dispatch ==
    /\ cpc = "dispatch"
    /\ cidx <= Len(function_call_list)
    /\ result_list' = Append(result_list,
                             [function_call |-> function_call_list[cidx],
                              state |-> "queued"])
    /\ cidx' = cidx + 1
    /\ UNCHANGED <<function_call_list, call_batch, cpc, coutcome, cprocesses, pool,
                   log_str_list, clog, subVars>>

\* the dispatch loop ends; the list comprehension of result.get() begins
DispatchDone ==
    /\ cpc = "dispatch"
    /\ cidx > Len(function_call_list)
    /\ cpc' = "get"
    /\ UNCHANGED <<function_call_list, call_batch, coutcome, cprocesses, pool,
                   result_list, log_str_list, cidx, clog, subVars>>

\* a free worker of the pool takes the oldest queued task
WorkerStart ==
    /\ pool = "open"
    /\ Cardinality(Executing) < cprocesses
    /\ \E k \in 1..Len(result_list) :
         /\ result_list[k].state = "queued"
         /\ \A m \in 1..(k - 1) : result_list[m].state # "queued"
         /\ result_list' = [result_list EXCEPT ![k].state = "executing"]
    /\ UNCHANGED <<function_call_list, call_batch, cpc, coutcome, cprocesses, pool,
                   log_str_list, cidx, clog, subVars>>

\* a worker finishes its task: the result is ready
WorkerFinish ==
    /\ \E k \in Executing :
         result_list' = [result_list EXCEPT ![k].state = "ready"]
    /\ UNCHANGED <<function_call_list, call_batch, cpc, coutcome, cprocesses, pool,
                   log_str_list, cidx, clog, subVars>>

\* result.get() of the next result returns (it blocks until the result is ready)
Get_AnyReady ==
    /\ cpc = "get"
    /\ Len(log_str_list) < Len(result_list)
    /\ \E k \in 1..Len(result_list) :
         /\ result_list[k].state = "ready"
         /\ log_str_list' = Append(log_str_list,
              call_func_and_return_log_and_error_caught(result_list[k].function_call))
    /\ UNCHANGED <<function_call_list, call_batch, cpc, coutcome, cprocesses, pool,
                   result_list, cidx, clog, subVars>>

Get ==
    /\ cpc = "get"
    /\ Len(log_str_list) < Len(result_list)
    /\ LET k == Len(log_str_list) + 1 IN
         /\ result_list[k].state = "ready"
         /\ log_str_list' = Append(log_str_list,
              call_func_and_return_log_and_error_caught(result_list[k].function_call))
    /\ UNCHANGED <<function_call_list, call_batch, cpc, coutcome, cprocesses, pool,
                   result_list, cidx, clog, subVars>>

\* every result is collected; the logging loop begins
GetDone ==
    /\ cpc = "get"
    /\ AllCollected
    /\ cpc' = "log"
    /\ cidx' = 1
    /\ UNCHANGED <<function_call_list, call_batch, coutcome, cprocesses, pool,
                   result_list, log_str_list, clog, subVars>>

\* one iteration of the logging loop: log the text, raise if the call errored
LogResult ==
    /\ cpc = "log"
    /\ cidx <= Len(log_str_list)
    /\ LET r == log_str_list[cidx] IN
         /\ clog' = IF r.log_str # ""
                    THEN Append(clog,
                           LogLine(" - multiprocessing function call completed - \n",
                                   r.log_str))
                    ELSE clog
         /\ IF RaiseOnError(r)
            THEN /\ coutcome' = "RuntimeError"
                 /\ cpc' = "done"
                 /\ cidx' = cidx
            ELSE /\ coutcome' = coutcome
                 /\ cpc' = cpc
                 /\ cidx' = cidx + 1
    /\ UNCHANGED <<function_call_list, call_batch, cprocesses, pool, result_list,
                   log_str_list, subVars>>

\* the logging loop ends: pool.close() and return
ClosePool ==
    /\ cpc = "log"
    /\ cidx > Len(log_str_list)
    /\ pool' = "closed"
    /\ coutcome' = "returned"
    /\ cpc' = "done"
    /\ UNCHANGED <<function_call_list, call_batch, cprocesses, result_list,
                   log_str_list, cidx, clog, subVars>>

\* control leaves run_processes: its locals are gone, the instance is idle again
CallExit ==
    /\ cpc = "done"
    /\ cpc' = "idle"
    /\ cprocesses' = 1
    /\ pool' = "none"
    /\ result_list' = << >>
    /\ log_str_list' = << >>
    /\ cidx' = 0
    /\ call_batch' = << >>
    /\ UNCHANGED <<function_call_list, coutcome, clog, subVars>>

----------------------------------------------------------------------------
Init == SubInit /\ CallInit

Next ==
    \/ add_command
    \/ run_processes
    \/ Launch
    \/ LaunchDone
    \/ PollCompleted
    \/ PollTimeout
    \/ PollDone
    \/ CheckFatal
    \/ CheckRetry
    \/ CheckSuccess
    \/ Exit

Spec == Init /\ [][Next]_vars

CallNext ==
    \/ add_function_call
    \/ call_run_processes
    \/ Dispatch
    \/ DispatchDone
    \/ WorkerStart
    \/ WorkerFinish
    \/ Get
    \/ GetDone
    \/ LogResult
    \/ ClosePool
    \/ CallExit

CallSpec == Init /\ [][CallNext]_vars

\* a program that uses one executor, of either kind
SubUntouched == pc = "idle" /\ outcome = "none" /\ cmd_list = << >>
CallUntouched == cpc = "idle" /\ coutcome = "none" /\ function_call_list = << >>

EitherNext ==
    \/ CallUntouched /\ Next
    \/ SubUntouched /\ CallNext

EitherSpec == Init /\ [][EitherNext]_vars

\* the interpreter keeps executing run_processes, and every process that was
\* started exits: a poll that keeps meeting it finds it completed in the end
Fairness ==
    /\ WF_vars(Launch)
    /\ WF_vars(LaunchDone)
    /\ WF_vars(PollCompleted \/ PollTimeout)
    /\ SF_vars(PollCompleted)
    /\ WF_vars(PollDone)
    /\ WF_vars(CheckFatal)
    /\ WF_vars(CheckRetry)
    /\ WF_vars(CheckSuccess)
    /\ WF_vars(Exit)

FairSpec == Spec /\ Fairness

----------------------------------------------------------------------------
\* Properties of SubprocessPool.run_processes (checked under Spec)

InRun == pc # "idle"
Trackers == 1..Len(tracker)
FatalDetected == pc = "done" /\ outcome \in Raised
ErrorLines == {k \in 1..Len(log) : log[k].msg = " - subprocess exited with errors - "}

\* C1: at every point of a run, whatever the order in which the processes exit,
\* the running list holds at most `processes` trackers.
C1_RunningAtMostProcesses == InRun => Len(running) <= processes

C1_Witness ==
    /\ pc = "poll"
    /\ processes = 2
    /\ Len(running) = processes
    /\ tracker[running[1]].retries > 0

\* C2: when every command of the batch fails at most `retries` times before it
\* exits zero (one of them exactly `retries` times), the run raises nothing and
\* logs no error line, no command is started more than retries + 1 times, and
\* the run ends by returning, each command having been started once more than
\* it failed.
C2_RetriesThenSuccessReturns ==
    (/\ InRun
     /\ \A t \in Trackers : exit_plan[t] <= retries
     /\ \E t \in Trackers : exit_plan[t] = retries)
    => /\ outcome \notin Raised
       /\ ErrorLines = {}
       /\ \A t \in Trackers : launched[t] <= retries + 1
       /\ pc = "done" => /\ outcome = "returned"
                         /\ \A t \in Trackers : launched[t] = exit_plan[t] + 1

C2_Witness ==
    /\ pc = "done"
    /\ outcome = "returned"
    /\ retries >= 1
    /\ \A t \in Trackers : exit_plan[t] <= retries
    /\ \E t \in Trackers : exit_plan[t] = retries /\ launched[t] = retries + 1

\* C3: a run in which some command fails on all of its retries + 1 attempts
\* never returns normally, and the step that detects the final failure starts
\* no process and leaves the pending list as it is; after it control leaves
\* run_processes and the pending trackers are dropped without being started.
C3_NoReturnWhenExhausted ==
    (InRun /\ \E t \in Trackers : exit_plan[t] > retries) => outcome # "returned"

C3_NoLaunchAtOrAfterFatal ==
    /\ (FatalDetected' /\ ~FatalDetected)
          => (pc = "check" /\ launched' = launched /\ to_run' = to_run)
    /\ FatalDetected
          => (pc' = "idle" /\ launched' = << >> /\ to_run' = << >> /\ running' = << >>)

C3_ExhaustedRaisesAndStopsLaunching ==
    [](C3_NoReturnWhenExhausted) /\ [][C3_NoLaunchAtOrAfterFatal]_vars

C3_Witness == FatalDetected /\ Len(to_run) > 0 /\ retries >= 1

\* C8: from the moment run_processes has taken the batch until control leaves
\* it, by return or by raise, cmd_list is empty; a tracker queued for a retry
\* goes to to_run, never to cmd_list.
C8_CmdListDrained == InRun => cmd_list = << >>

C8_Witness ==
    /\ FatalDetected
    /\ cmd_list = << >>
    /\ Len(to_run) > 0
    /\ \E t \in Trackers : tracker[t].retries > 0

\* C9: the check of a completed tracker whose return code is non-zero and whose
\* retry counter equals the budget ends the run by a raise in that same step:
\* the running list and every tracker (the live handles of the running ones,
\* the completed ones not yet examined) stay as they are, and nothing is
\* queued again.
C9_AtBudget ==
    /\ pc = "check"
    /\ idx <= Len(completed)
    /\ tracker[completed[idx]].popen.returncode # 0
    /\ tracker[completed[idx]].retries = retries

C9_FatalStep ==
    C9_AtBudget =>
        /\ FatalDetected'
        /\ running' = running
        /\ \A k \in 1..Len(running) : tracker'[running[k]].popen.state = "live"
        /\ tracker' = tracker
        /\ to_run' = to_run
        /\ completed' = completed
        /\ idx' = idx

C9_RaiseLeavesSiblings == [][C9_FatalStep]_vars

C9_Witness ==
    /\ FatalDetected
    /\ Len(running) > 0
    /\ tracker[running[1]].popen.state = "live"
    /\ tracker[completed[idx]].retries = retries
    /\ retries >= 1

\* C10: when a command has used up its retries, the last line logged is the
\* "exited with errors" line and the error raised is the RuntimeError,
\* whatever the output and shell flags are.
C10_LogsThenRaisesRuntimeError ==
    FatalDetected =>
        /\ outcome = "RuntimeError"
        /\ Len(log) > 0
        /\ log[Len(log)].msg = " - subprocess exited with errors - "

----------------------------------------------------------------------------
\* Properties of MultiprocessingPool.run_processes (checked under CallSpec)

BatchFailed == cpc = "done" /\ coutcome = "RuntimeError"

\* C4: the batch failure is raised only when the result of every dispatched
\* call has been collected.
C4_RaiseAfterAllCollected ==
    BatchFailed =>
        /\ Len(result_list) = Len(function_call_list)
        /\ Len(log_str_list) = Len(result_list)
        /\ \A k \in 1..Len(result_list) : result_list[k].state = "ready"

C4_Witness ==
    /\ BatchFailed
    /\ Len(result_list) = 3
    /\ ~FuncRaises(result_list[1].function_call.func)
    /\ FuncRaises(result_list[2].function_call.func)
    /\ ~FuncRaises(result_list[3].function_call.func)

\* C5: when control leaves run_processes, by return or by the batch failure,
\* the pool of that run has been closed.
C5_PoolClosedOnEveryExit == cpc = "done" => pool = "closed"

\* C6: when the batch failure is raised, every collected result whose log text
\* is not empty has been logged.
C6_EveryLogEmittedBeforeRaise ==
    BatchFailed =>
        Len(clog) = Cardinality({k \in 1..Len(log_str_list) : log_str_list[k].log_str # ""})

\* C7: a run dispatches exactly the calls added since the previous run ended.
C7_RunExecutesOnlyItsBatch ==
    cpc \in {"get", "log", "done"} =>
        [k \in 1..Len(result_list) |-> result_list[k].function_call] = call_batch

----------------------------------------------------------------------------
\* Further properties of SubprocessPool.run_processes

ExitedZero(t) == tracker[t].popen.state = "exited" /\ tracker[t].popen.returncode = 0

\* C11: in a run of a batch (possibly empty) whose every attempt exits zero,
\* nothing is raised and no command is started twice, and the run can only end
\* by returning, with every command started exactly once and seen to exit zero
\* and with cmd_list empty, whatever `processes` is and in whatever order the
\* processes exit.
C11_AllZeroBatchReturns ==
    (InRun /\ \A t \in Trackers : exit_plan[t] = 0)
    => /\ outcome \notin Raised
       /\ \A t \in Trackers : launched[t] <= 1 /\ tracker[t].retries = 0
       /\ pc = "done" => /\ outcome = "returned"
                         /\ \A t \in Trackers : launched[t] = 1 /\ ExitedZero(t)
                         /\ cmd_list = << >>
                         /\ to_run = << >> /\ running = << >>

C11_Witness ==
    /\ pc = "done"
    /\ outcome = "returned"
    /\ Len(tracker) = 2
    /\ processes = 1
    /\ \A t \in Trackers : exit_plan[t] = 0 /\ launched[t] = 1

----------------------------------------------------------------------------
\* Validation of the arguments and of the submitted items

subWork == <<cmd_list, batch, pc, runLocals>>
callWork == <<function_call_list, call_batch, cpc, callLocals>>

\* C12: no run of either executor ever proceeds with a concurrency outside
\* 1..36, and the call that is rejected for its concurrency changes nothing
\* but the error it raises: no tracker and no process, no pool, no dispatched
\* call, the pending queue as it was.
C12_ConcurrencyInRange ==
    /\ InRun => (1 <= processes /\ processes <= 36)
    /\ cpc # "idle" => (1 <= cprocesses /\ cprocesses <= 36)
    /\ pool # "none" => cpc # "idle"

C12_RejectedCallDoesNothing ==
    /\ (outcome' = ProcessesAssertion /\ outcome' # outcome) => UNCHANGED subWork
    /\ (coutcome' = ProcessesAssertion /\ coutcome' # coutcome) => UNCHANGED callWork

C12_BadConcurrencyFailsBeforeWork ==
    [](C12_ConcurrencyInRange) /\ [][C12_RejectedCallDoesNothing]_vars

C12_Witness ==
    /\ outcome = ProcessesAssertion
    /\ pc = "idle"
    /\ Len(cmd_list) = 2
    /\ tracker = << >>
    /\ launched = << >>

\* C13: no run of the SubprocessPool ever proceeds with retries outside 0..30,
\* and the call that is rejected for its retries changes nothing but the error
\* it raises: cmd_list keeps its items and no tracker or process exists.
C13_RetriesInRange == InRun => (0 <= retries /\ retries <= 30)

C13_RejectedCallDoesNothing ==
    (outcome' = RetriesAssertion /\ outcome' # outcome) => UNCHANGED subWork

C13_BadRetriesFailsBeforeWork ==
    [](C13_RetriesInRange) /\ [][C13_RejectedCallDoesNothing]_vars

C13_Witness ==
    /\ outcome = RetriesAssertion
    /\ pc = "idle"
    /\ Len(cmd_list) = 2
    /\ cmd_list = batch
    /\ tracker = << >>

AssertionErrors ==
    {ProcessesAssertion, RetriesAssertion, EmptyCmdAssertion, NotCallableAssertion}

\* C14: an empty command and a call whose func is not callable are rejected
\* when they are submitted, by a step that changes nothing but the error it
\* raises; so the queues and the items of a run never hold such an item, and
\* no assertion fails while a run is in progress.
C14_OnlyValidItemsQueued ==
    /\ \A k \in 1..Len(cmd_list) : Len(cmd_list[k]) > 0
    /\ \A t \in Trackers : Len(tracker[t].cmd) > 0
    /\ \A k \in 1..Len(function_call_list) : function_call_list[k].func # "not_callable"
    /\ \A k \in 1..Len(result_list) : result_list[k].function_call.func # "not_callable"
    /\ InRun => outcome \notin AssertionErrors
    /\ cpc # "idle" => coutcome \notin AssertionErrors

C14_RejectedItemNotQueued ==
    /\ (outcome' = EmptyCmdAssertion /\ outcome' # outcome) => UNCHANGED subWork
    /\ (coutcome' = NotCallableAssertion /\ coutcome' # coutcome) => UNCHANGED callWork

C14_BadItemsFailAtAddTime ==
    [](C14_OnlyValidItemsQueued) /\ [][C14_RejectedItemNotQueued]_vars

C14_Witness ==
    /\ coutcome = NotCallableAssertion
    /\ cpc = "idle"
    /\ Len(function_call_list) = 2
    /\ function_call_list = call_batch

----------------------------------------------------------------------------
\* The life of a tracker inside SubprocessPool.run_processes

InSeq(seq, t) == \E k \in 1..Len(seq) : seq[k] = t
Count(seq, t) == Cardinality({k \in 1..Len(seq) : seq[k] = t})

\* C15: during a run a tracker enters the pending list only in the retry step:
\* it is the completed tracker being examined, its return code is non-zero and
\* its retry counter is below the budget; the step adds one to the counter and
\* clears the handle.  So every retry counter stays in 0..retries and no
\* tracker is started more than retries + 1 times.
C15_RetryCounterInBudget ==
    InRun => \A t \in Trackers :
        /\ 0 <= tracker[t].retries /\ tracker[t].retries <= retries
        /\ launched[t] <= tracker[t].retries + 1
        /\ launched[t] <= retries + 1

C15_RequeueOnlyByRetry ==
    InRun => \A t \in Trackers :
        (~InSeq(to_run, t) /\ InSeq(to_run', t)) =>
            /\ pc = "check"
            /\ idx <= Len(completed)
            /\ completed[idx] = t
            /\ tracker[t].popen.returncode # 0
            /\ tracker[t].retries < retries
            /\ tracker'[t].retries = tracker[t].retries + 1
            /\ tracker'[t].popen = NoPopen

C15_BackToPendingOnlyViaRetry ==
    [](C15_RetryCounterInBudget) /\ [][C15_RequeueOnlyByRetry]_vars

C15_Witness ==
    /\ pc = "launch"
    /\ retries >= 1
    /\ \E t \in Trackers :
         /\ InSeq(to_run, t)
         /\ tracker[t].retries = retries
         /\ launched[t] = retries

----------------------------------------------------------------------------
\* Termination of SubprocessPool.run_processes (checked under FairSpec)

Exhausted(t) ==
    /\ tracker[t].popen.state = "exited"
    /\ tracker[t].popen.returncode # 0
    /\ tracker[t].retries = retries

InLoop == pc \in {"launch", "poll", "check"}

\* C16: control leaves run_processes in one of two ways only: the return, with
\* nothing pending or running and every command seen to exit zero, or the raise
\* made for the tracker under examination, which is the first one found failed
\* with its retries used up.  When every started process exits in the end, a
\* run that has entered its loop does leave it.
C16_TwoWaysOut ==
    pc = "done" =>
        \/ /\ outcome = "returned"
           /\ to_run = << >> /\ running = << >>
           /\ \A t \in Trackers : ExitedZero(t)
        \/ /\ outcome \in Raised
           /\ idx <= Len(completed)
           /\ Exhausted(completed[idx])
           /\ \A t \in Trackers :
                Exhausted(t) => \E k \in idx..Len(completed) : completed[k] = t

C16_Terminates == [](C16_TwoWaysOut) /\ (InLoop ~> pc = "done")

C16_Witness ==
    /\ pc = "done"
    /\ outcome \in Raised
    /\ idx = 2
    /\ Exhausted(completed[2])
    /\ tracker[completed[1]].retries = 1
    /\ InSeq(to_run, completed[1])

----------------------------------------------------------------------------
\* C17: whenever the poll loop is running, that is each time the launch loop
\* has finished, the running list holds exactly `processes` trackers or
\* nothing is pending; trackers queued again by the retry step are started in
\* the next launch loop like any other.
C17_SlotsFilledGreedily ==
    pc = "poll" => (Len(running) = processes \/ Len(to_run) = 0)

C17_Witness ==
    /\ pc = "poll"
    /\ idx = 1
    /\ Len(running) = processes
    /\ Len(to_run) > 0
    /\ tracker[running[Len(running)]].retries > 0

----------------------------------------------------------------------------
\* C19: at the test of the outer loop reached without a raise (the launch
\* loop, and the return) every tracker of the batch is in exactly one place:
\* pending, running, or exited with status zero.  In every state no tracker is
\* twice in the running list, and a process is started only for a tracker
\* that holds no handle.
Places(t) ==
    Count(to_run, t) + Count(running, t) + (IF ExitedZero(t) THEN 1 ELSE 0)

C19_OnePlaceAtLoopTest ==
    /\ (pc = "launch" \/ (pc = "done" /\ outcome = "returned"))
          => \A t \in Trackers : Places(t) = 1
    /\ InRun => \A t \in Trackers :
          /\ Count(running, t) <= 1
          /\ Count(to_run, t) <= 1
          /\ InSeq(to_run, t) => tracker[t].popen.state = "None"
          /\ (InSeq(running, t) /\ pc = "launch") => tracker[t].popen.state = "live"

C19_LaunchOnlyWithoutHandle ==
    InRun => \A t \in Trackers :
        (InRun' /\ launched'[t] # launched[t]) =>
            /\ launched'[t] = launched[t] + 1
            /\ tracker[t].popen.state = "None"
            /\ tracker'[t].popen.state = "live"
            /\ ~InSeq(running, t)

C19_NoItemLostOrDuplicated ==
    [](C19_OnePlaceAtLoopTest) /\ [][C19_LaunchOnlyWithoutHandle]_vars

C19_Witness ==
    /\ pc = "launch"
    /\ Len(tracker) = 2
    /\ \E t, u \in Trackers :
         /\ ExitedZero(t)
         /\ InSeq(to_run, u)
         /\ tracker[u].retries > 0

----------------------------------------------------------------------------
\* C20: with the exit statuses of every command's attempts fixed, a run that
\* ends raises exactly when some command fails on all of its first
\* retries + 1 attempts and returns otherwise, whatever `processes` is,
\* whatever the launch order and whatever the order of the exits.
C20_OutcomeFixedByExitPlan ==
    pc = "done" =>
        /\ outcome \in Raised <=> (\E t \in Trackers : exit_plan[t] > retries)
        /\ outcome = "returned" <=> (\A t \in Trackers : exit_plan[t] <= retries)

C20_Witness ==
    /\ pc = "done"
    /\ outcome \in Raised
    /\ processes = 2
    /\ retries = 1
    /\ Len(tracker) = 2
    /\ exit_plan[1] > retries
    /\ exit_plan[2] = 0
    /\ ExitedZero(2)

----------------------------------------------------------------------------
\* Order of collection and of reporting in MultiprocessingPool.run_processes

RECURSIVE NonEmptyLogs(_, _)
\* the lines logged for the first n collected results
NonEmptyLogs(results, n) ==
    IF n = 0 THEN << >>
    ELSE IF results[n].log_str # ""
         THEN Append(NonEmptyLogs(results, n - 1),
                     LogLine(" - multiprocessing function call completed - \n",
                             results[n].log_str))
         ELSE NonEmptyLogs(results, n - 1)

\* the number of collected results the logging loop has gone through
Reported ==
    IF cpc \in {"dispatch", "get"} THEN 0
    ELSE IF BatchFailed THEN cidx
    ELSE cidx - 1

\* C18: results are collected in dispatch order, whatever the order in which
\* the workers finish: the collected list is at every moment the results of
\* the first calls dispatched.  No line is logged before every result is
\* collected, and the lines logged are those of the calls gone through so far,
\* in dispatch order.
C18_CollectedAndReportedInOrder ==
    cpc # "idle" =>
        /\ Len(log_str_list) <= Len(result_list)
        /\ \A k \in 1..Len(log_str_list) :
             /\ result_list[k].state = "ready"
             /\ log_str_list[k] =
                  call_func_and_return_log_and_error_caught(result_list[k].function_call)
        /\ Len(clog) > 0 => Len(log_str_list) = Len(result_list)
        /\ Reported <= Len(log_str_list)
        /\ clog = NonEmptyLogs(log_str_list, Reported)

C18_Witness ==
    /\ cpc = "get"
    /\ Len(result_list) = 3
    /\ Len(log_str_list) = 1
    /\ result_list[2].function_call.func = "f_log"
    /\ result_list[2].state = "executing"
    /\ result_list[3].function_call.func = "f_raise"
    /\ result_list[3].state = "ready"

====
